---------------------------- MODULE Spec2Model ----------------------------
(***************************************************************************)
(* Model of the ESOP analytics core: the CSV ingestion service             *)
(* (services/csvService.js: parseDate, parseAndSaveEsopCSV), the storage    *)
(* model it writes to (models/Esop.js), the Monte Carlo projector          *)
(* (services/successProbabilityService.js: runSimulation,                  *)
(* generateSuccessProbabilities) and the strategy synthesizer              *)
(* (services/strategyService.js).                                          *)
(*                                                                         *)
(* JavaScript values are represented as follows.                           *)
(*   string     a sequence of one-character strings, <<"1","2">> for "12"  *)
(*   number     [nan |-> BOOLEAN, v |-> Int]; prices carry v in            *)
(*              thousandths (PriceScale)                                   *)
(*   Date/null  [valid |-> BOOLEAN, y, m, d]; valid = FALSE is null        *)
(*   row        a function from the column names present to strings        *)
(***************************************************************************)
EXTENDS Integers, Sequences, FiniteSets, TLC

(***************************************************************************)
(* Bounds of the model.                                                    *)
(***************************************************************************)
\* rows per uploaded file
MaxRows == 2
\* columns present in a raw row handed to the normalizer alone
MaxKeys == 2
\* scenario trials per simulation (the source runs 1000)
scenarios == 2
\* largest horizon, in years, of a simulation
MaxHorizon == 2

(***************************************************************************)
(* Characters and strings.                                                 *)
(***************************************************************************)
Digits == {"0", "1", "2", "3", "4", "5", "6", "7", "8", "9"}

DigitVal(c) ==
    CASE c = "0" -> 0 [] c = "1" -> 1 [] c = "2" -> 2 [] c = "3" -> 3
      [] c = "4" -> 4 [] c = "5" -> 5 [] c = "6" -> 6 [] c = "7" -> 7
      [] c = "8" -> 8 [] c = "9" -> 9

WhiteSpace == {" ", "\t"}

LowerChars == <<"a", "b", "c", "d", "e", "f", "g", "h", "i", "j", "k", "l", "m",
                "n", "o", "p", "q", "r", "s", "t", "u", "v", "w", "x", "y", "z">>

UpperChars == <<"A", "B", "C", "D", "E", "F", "G", "H", "I", "J", "K", "L", "M",
                "N", "O", "P", "Q", "R", "S", "T", "U", "V", "W", "X", "Y", "Z">>

\* String.prototype.toUpperCase, one character
UpperChar(c) ==
    IF \E i \in 1..Len(LowerChars) : LowerChars[i] = c
    THEN UpperChars[CHOOSE i \in 1..Len(LowerChars) : LowerChars[i] = c]
    ELSE c

\* String.prototype.toUpperCase
toUpperCase(s) == [i \in 1..Len(s) |-> UpperChar(s[i])]

RECURSIVE TrimLeft(_)
\* the leading white space that parseInt and parseFloat skip
TrimLeft(s) ==
    IF s # <<>> /\ Head(s) \in WhiteSpace THEN TrimLeft(Tail(s)) ELSE s

RECURSIVE DigitPrefixLen(_)
\* length of the longest prefix of decimal digits
DigitPrefixLen(s) ==
    IF s # <<>> /\ Head(s) \in Digits THEN 1 + DigitPrefixLen(Tail(s)) ELSE 0

RECURSIVE DigitsValue(_, _)
\* value of a sequence of decimal digits, acc carrying the digits read so far
DigitsValue(s, acc) ==
    IF s = <<>> THEN acc ELSE DigitsValue(Tail(s), 10 * acc + DigitVal(Head(s)))

(***************************************************************************)
(* Numbers.                                                                *)
(***************************************************************************)
Num(n) == [nan |-> FALSE, v |-> n]

NaN == [nan |-> TRUE, v |-> 0]

\* the JavaScript comparison x > n, false for NaN
Gt(x, n) == ~x.nan /\ x.v > n

\* prices are held in thousandths
PriceScale == 10 * 10 * 10

\* sign and unsigned rest of a numeric literal
SignOf(s) == IF s # <<>> /\ Head(s) = "-" THEN -1 ELSE 1

Unsigned(s) == IF s # <<>> /\ Head(s) \in {"-", "+"} THEN Tail(s) ELSE s

\* parseInt(s, 10) of a string
parseInt(s) ==
    LET t == Unsigned(TrimLeft(s))
        n == DigitPrefixLen(t)
    IN  IF n = 0 THEN NaN
        ELSE Num(SignOf(TrimLeft(s)) * DigitsValue(SubSeq(t, 1, n), 0))

\* the first three digits of a fraction, padded with zeros on the right
FracValue(f) == DigitsValue(SubSeq(f \o <<"0", "0", "0">>, 1, 3), 0)

\* parseFloat(s) of a string without exponent part: the longest prefix
\* [+-] digits [. digits] or [+-] . digits
parseFloat(s) ==
    LET t  == Unsigned(TrimLeft(s))
        n  == DigitPrefixLen(t)
        r  == SubSeq(t, n + 1, Len(t))
        fl == IF r # <<>> /\ Head(r) = "." THEN DigitPrefixLen(Tail(r)) ELSE 0
        f  == IF fl = 0 THEN <<>> ELSE SubSeq(r, 2, fl + 1)
    IN  IF n = 0 /\ fl = 0 THEN NaN
        ELSE Num(SignOf(TrimLeft(s))
                 * (DigitsValue(SubSeq(t, 1, n), 0) * PriceScale + FracValue(f)))

(***************************************************************************)
(* Dates: the Date constructor and parseDate.                              *)
(***************************************************************************)
Null == [valid |-> FALSE, y |-> 0, m |-> 0, d |-> 0]

DateOf(y, m, d) == [valid |-> TRUE, y |-> y, m |-> m, d |-> d]

IsLeap(y) == (y % 4 = 0 /\ y % 100 # 0) \/ y % 400 = 0

DaysInMonth(y, m) ==
    IF m = 2 THEN (IF IsLeap(y) THEN 29 ELSE 28)
    ELSE IF m \in {4, 6, 9, 11} THEN 30 ELSE 31

RECURSIVE NormDay(_, _, _)
\* the calendar date of day d of month m (1..12) of year y, where d may lie
\* outside the month: the days carry into the following or preceding months
NormDay(y, m, d) ==
    IF d > DaysInMonth(y, m)
    THEN (IF m = 12 THEN NormDay(y + 1, 1, d - DaysInMonth(y, m))
          ELSE NormDay(y, m + 1, d - DaysInMonth(y, m)))
    ELSE IF d < 1
    THEN (IF m = 1 THEN NormDay(y - 1, 12, d + 31)
          ELSE NormDay(y, m - 1, d + DaysInMonth(y, m - 1)))
    ELSE DateOf(y, m, d)

\* MakeDay(year, month, date) with a zero-based month that may lie outside
\* 0..11: the months carry into the years
MakeDay(y, m0, d) == NormDay(y + (m0 \div 12), (m0 % 12) + 1, d)

RECURSIVE Split(_, _)
\* String.prototype.split on a one-character separator
Split(s, sep) ==
    IF \A i \in 1..Len(s) : s[i] # sep THEN <<s>>
    ELSE LET k == CHOOSE i \in 1..Len(s) :
                      s[i] = sep /\ \A j \in 1..(i - 1) : s[j] # sep
         IN  <<SubSeq(s, 1, k - 1)>> \o Split(SubSeq(s, k + 1, Len(s)), sep)

AllDigits(s) == s # <<>> /\ \A i \in 1..Len(s) : s[i] \in Digits

\* ToNumber of a string holding an integer literal; the empty string is 0 and
\* anything else is NaN
ToNumber(s) ==
    IF s = <<>> THEN Num(0)
    ELSE IF AllDigits(Unsigned(s)) THEN Num(SignOf(s) * DigitsValue(Unsigned(s), 0))
    ELSE NaN

\* new Date(year, monthIndex, day) on numbers: NaN in any argument gives an
\* invalid date, a year in 0..99 means 1900 + year
DateFromParts(y, m0, d) ==
    IF y.nan \/ m0.nan \/ d.nan THEN Null
    ELSE MakeDay(IF y.v \in 0..99 THEN 1900 + y.v ELSE y.v, m0.v, d.v)

IsMonth(n) == n \in 1..12

IsDay(n) == n \in 1..31

\* the three numbers of a date string as the engine composes them: an ISO
\* string, or one whose first number cannot be a day, is year-month-day, any
\* other is month-day-year with a two-digit year completed
ComposeDay(c, iso) ==
    LET ymd == iso \/ ~IsDay(c[1])
        y0  == IF ymd THEN c[1] ELSE c[3]
        mo  == IF ymd THEN c[2] ELSE c[1]
        dy  == IF ymd THEN c[3] ELSE c[2]
        yr  == IF iso THEN y0
               ELSE IF y0 \in 0..49 THEN y0 + 2000
               ELSE IF y0 \in 50..99 THEN y0 + 1900 ELSE y0
    IN  IF IsMonth(mo) /\ IsDay(dy) THEN MakeDay(yr, mo - 1, dy) ELSE Null

\* new Date(dateString) for strings of three runs of digits separated by "-"
\* or by "/" (any other string of the model's inputs is no date)
NativeParse(s) ==
    LET pd == Split(s, "-")
        ps == Split(s, "/")
        nums(p) == [i \in 1..3 |-> DigitsValue(p[i], 0)]
    IN  IF Len(pd) = 3 /\ \A i \in 1..3 : AllDigits(pd[i])
        THEN ComposeDay(nums(pd),
                        Len(pd[1]) = 4 /\ Len(pd[2]) = 2 /\ Len(pd[3]) = 2)
        ELSE IF Len(ps) = 3 /\ \A i \in 1..3 : AllDigits(ps[i])
        THEN ComposeDay(nums(ps), FALSE)
        ELSE Null

\* string - 1
MinusOne(x) == IF x.nan THEN NaN ELSE Num(x.v - 1)

\* the MM/DD/YYYY branch of parseDate
SlashDate(s) ==
    LET p == Split(s, "/")
    IN  IF Len(p) = 3
        THEN DateFromParts(ToNumber(p[3]), MinusOne(ToNumber(p[1])), ToNumber(p[2]))
        ELSE Null

\* the DD-MM-YYYY branch of parseDate
DashDate(s) ==
    LET p == Split(s, "-")
    IN  IF Len(p) = 3
        THEN DateFromParts(ToNumber(p[3]), MinusOne(ToNumber(p[2])), ToNumber(p[1]))
        ELSE Null

\* parseDate(dateString) of a string; the empty string is falsy
parseDate(s) ==
    IF s = <<>> THEN Null
    ELSE IF NativeParse(s).valid THEN NativeParse(s)
    ELSE IF SlashDate(s).valid THEN SlashDate(s)
    ELSE IF DashDate(s).valid THEN DashDate(s)
    ELSE Null

(***************************************************************************)
(* The record normalizer: the "data" handler of parseAndSaveEsopCSV.       *)
(***************************************************************************)
\* a column of the row is truthy when it is present and not the empty string
Truthy(data, k) == k \in DOMAIN data /\ data[k] # <<>>

\* a faulty variant of OrElse: the last truthy column in the order of keys
OrElseLast(row, keys, dflt) ==
    IF \E i \in 1..Len(keys) : Truthy(row, keys[i])
    THEN row[keys[CHOOSE i \in 1..Len(keys) :
                      /\ Truthy(row, keys[i])
                      /\ \A j \in (i + 1)..Len(keys) : ~Truthy(row, keys[j])]]
    ELSE dflt

\* data[k1] || data[k2] || ... || dflt for a truthy default dflt: the first
\* truthy column in the order of keys
OrElse(data, keys, dflt) ==
    IF \E i \in 1..Len(keys) : Truthy(data, keys[i])
    THEN data[keys[CHOOSE i \in 1..Len(keys) :
                       /\ Truthy(data, keys[i])
                       /\ \A j \in 1..(i - 1) : ~Truthy(data, keys[j])]]
    ELSE dflt

\* parseInt(a || b || ... || 0, 10): the number 0 is converted to "0"
IntField(data, keys) == parseInt(OrElse(data, keys, <<"0">>))

\* parseFloat(a || b || ... || 0)
FloatField(data, keys) == parseFloat(OrElse(data, keys, <<"0">>))

\* parseDate(a || b || c): no truthy column leaves undefined or "", which
\* parseDate answers with null
DateField(data, keys) == parseDate(OrElse(data, keys, <<>>))

StandardStr == <<"S", "t", "a", "n", "d", "a", "r", "d">>

NAStr == <<"N", "/", "A">>

ISOStr == <<"I", "S", "O">>

\* a faulty variant of StatusOf: exercised >= 0 in place of exercised > 0
StatusOfGe(exercised) ==
    IF ~exercised.nan /\ exercised.v >= 0 THEN "Exercised" ELSE "Not exercised"

\* exercised > 0 ? "Exercised" : "Not exercised"
StatusOf(exercised) == IF Gt(exercised, 0) THEN "Exercised" ELSE "Not exercised"

\* processedRow of one row of the file
NormalizeRow(data, uid) ==
    LET totalGrants   == IntField(data, <<"totalGrants", "total_grants", "grants">>)
        vested        == IntField(data, <<"vested">>)
        unvested      == IntField(data, <<"unvested">>)
        exercised     == IntField(data, <<"exercised">>)
        exercisePrice == FloatField(data, <<"exercisePrice", "exercise_price", "price">>)
    IN  [ userId          |-> uid,
          grantDate       |-> DateField(data, <<"grantDate", "grant_date", "Grant Date">>),
          exercisePrice   |-> exercisePrice,
          vestingSchedule |-> OrElse(data, <<"vestingSchedule", "vesting_schedule",
                                             "Vesting Schedule">>, StandardStr),
          expirationDate  |-> DateField(data, <<"expirationDate", "expiration_date",
                                                "Expiration Date">>),
          totalGrants     |-> totalGrants,
          vested          |-> vested,
          unvested        |-> unvested,
          exercised       |-> exercised,
          ticker          |-> toUpperCase(OrElse(data, <<"ticker", "symbol">>, NAStr)),
          type            |-> OrElse(data, <<"type", "option_type">>, ISOStr),
          quantity        |-> totalGrants,
          price           |-> exercisePrice,
          exerciseDate    |-> DateField(data, <<"exerciseDate", "exercise_date",
                                                "Exercise Date">>),
          status          |-> StatusOf(exercised),
          notes           |-> OrElse(data, <<"notes", "comments">>, <<>>) ]

(***************************************************************************)
(* State.                                                                  *)
(***************************************************************************)
VARIABLES
    \* parseAndSaveEsopCSV, one entry per call
    pc,             \* where the call is
    filePath,       \* the rows of the file the call reads
    userId,         \* the owner the call ingests for
    results,        \* the records accumulated by the "data" handler
    errClass,       \* class of the error the promise rejected with
    \* the Esop collection and the process
    db,             \* the stored documents, in insertion order
    processUp,      \* FALSE once an uncaught exception ended the process
    \* history of a call
    failed,         \* the step of the call that failed
    before,         \* the collection when the call started
    settledBefore,  \* the calls that had settled when the call started
    raced,          \* the calls of the same owner that had deleted and not yet
                    \* inserted when the call's insert succeeded
    \* the normalizer applied to one row
    data, processedRow, normPc,
    \* parseDate applied to one string
    dateString, date, datePc,
    \* runSimulation
    riskTolerance, timeHorizon, initialInvestment, goalAmount,
    i, year, currentValue, successCount, successProbability, simPc,
    tamed,          \* history: every compounding factor drawn so far was > 0
    draws,          \* history: the calls of Math.random() made so far
    mediumValue,    \* history: currentValue had the draws been applied with
                    \* riskProfiles.medium
    mediumCount,    \* history: successCount of the same trials under
                    \* riskProfiles.medium
    \* the strategy synthesizer: one of its functions called twice
    fn,             \* the function called
    args,           \* planningRegion, riskTolerance, userGoals, analyticsSummary
                    \* and marketContext of both calls
    today,          \* the day of the system clock, counted from 2024-11-15
    first, second,  \* what the first and the second call returned
    stratPc,
    \* generateSuccessProbabilities
    esopData, userGoals,
    risk, horizon,  \* positions of the two loops
    batchResults,   \* results, a function of the (risk, year) keys assigned
    simCalls,       \* history: the arguments of the runSimulation calls made
    batchPc

ingestVars == <<pc, filePath, userId, results, errClass, db, processUp,
                failed, before, settledBefore, raced>>

normVars == <<data, processedRow, normPc>>

dateVars == <<dateString, date, datePc>>

simVars == <<riskTolerance, timeHorizon, initialInvestment, goalAmount,
             i, year, currentValue, successCount, successProbability, simPc, tamed,
             draws, mediumValue, mediumCount>>

stratVars == <<fn, args, today, first, second, stratPc>>

batchVars == <<esopData, userGoals, risk, horizon, batchResults, simCalls, batchPc>>

vars == <<ingestVars, normVars, dateVars, simVars, stratVars, batchVars>>

(***************************************************************************)
(* Inputs of the ingestion model.                                          *)
(***************************************************************************)
Calls == {"c1", "c2"}

Owners == {"u1", "u2"}

\* {totalGrants: "100", vested: "40", exercised: "0", ticker: "abc"}
RowPlain ==
    ("totalGrants" :> <<"1", "0", "0">>) @@ ("vested" :> <<"4", "0">>)
    @@ ("exercised" :> <<"0">>) @@ ("ticker" :> <<"a", "b", "c">>)

\* {grants: "5", exercised: "2", symbol: "x", price: "1.5", grant_date: "01/15/2024"}
RowAlias ==
    ("grants" :> <<"5">>) @@ ("exercised" :> <<"2">>) @@ ("symbol" :> <<"x">>)
    @@ ("price" :> <<"1", ".", "5">>)
    @@ ("grant_date" :> <<"0", "1", "/", "1", "5", "/", "2", "0", "2", "4">>)

\* {vested: "abc", ticker: "abc"}
RowBad == ("vested" :> <<"a", "b", "c">>) @@ ("ticker" :> <<"a", "b", "c">>)

FileRows == {RowPlain, RowAlias, RowBad}

\* the files: up to MaxRows rows, no row twice
Files ==
    UNION {{f \in [1..n -> FileRows] : \A a, b \in 1..n : f[a] = f[b] => a = b} :
           n \in 0..MaxRows}

NoFile == <<>>

\* the processedRow records of a whole file, in row order
NormalizeFile(f, o) == [k \in 1..Len(f) |-> NormalizeRow(f[k], o)]

\* the collection before the first call of a run: empty, or holding documents
\* that earlier uploads of both owners left
InitDbs == {<<>>, <<NormalizeRow(RowPlain, "u1"), NormalizeRow(RowAlias, "u2")>>}

NoOwner == "none"

(***************************************************************************)
(* The Esop collection (models/Esop.js).                                   *)
(***************************************************************************)
\* Esop.find({ userId }): the owner's documents, in insertion order
Find(coll, uid) == SelectSeq(coll, LAMBDA r : r.userId = uid)

\* a faulty variant of DeleteMany: the filter is dropped and every owner's
\* documents are deleted
DeleteManyAll(coll, uid) == <<>>

\* a faulty variant of DeleteMany: deleteOne, which removes only the owner's
\* first document
DeleteManyOne(coll, uid) ==
    IF \E k \in 1..Len(coll) : coll[k].userId = uid
    THEN LET k == CHOOSE a \in 1..Len(coll) :
                      coll[a].userId = uid /\ \A b \in 1..(a - 1) : coll[b].userId # uid
         IN  SubSeq(coll, 1, k - 1) \o SubSeq(coll, k + 1, Len(coll))
    ELSE coll

\* Esop.deleteMany({ userId }): the collection without the owner's documents
DeleteMany(coll, uid) == SelectSeq(coll, LAMBDA r : r.userId # uid)

RECURSIVE DeleteFirst(_, _, _)
\* the collection without the first k documents of the owner
DeleteFirst(coll, uid, k) ==
    IF k = 0 THEN coll ELSE DeleteFirst(DeleteManyOne(coll, uid), uid, k - 1)

\* a faulty variant of InsertMany: the documents are stored last row first
InsertManyReversed(coll, docs) ==
    coll \o [k \in 1..Len(docs) |-> docs[Len(docs) + 1 - k]]

\* a faulty variant of InsertMany: an upsert by owner, which drops what the
\* owner of the documents holds before it stores them
InsertManyReplacing(coll, docs) ==
    IF docs = <<>> THEN coll
    ELSE SelectSeq(coll, LAMBDA r : r.userId # docs[1].userId) \o docs

\* Esop.insertMany(docs): the documents are appended in their order
InsertMany(coll, docs) == coll \o docs

\* the Number paths of the schema reject NaN, so a batch holding one is not
\* inserted
Castable(r) ==
    /\ ~r.exercisePrice.nan /\ ~r.totalGrants.nan /\ ~r.vested.nan
    /\ ~r.unvested.nan /\ ~r.exercised.nan /\ ~r.quantity.nan /\ ~r.price.nan

Valid(docs) == \A k \in 1..Len(docs) : Castable(docs[k])

(***************************************************************************)
(* parseAndSaveEsopCSV(filePath, userId).                                  *)
(***************************************************************************)
Settled(p) == pc[p] \in {"resolved", "rejected"}

InFlight(p) == pc[p] \in {"streaming", "counting", "deleting", "inserting"}

\* the call: the read stream is created and piped into the parser
Start(p, f, o) ==
    /\ processUp /\ pc[p] = "idle"
    /\ pc' = [pc EXCEPT ![p] = "streaming"]
    /\ filePath' = [filePath EXCEPT ![p] = f]
    /\ userId' = [userId EXCEPT ![p] = o]
    /\ results' = [results EXCEPT ![p] = <<>>]
    /\ before' = [before EXCEPT ![p] = db]
    /\ settledBefore' = [settledBefore EXCEPT ![p] = {q \in Calls : Settled(q)}]
    /\ UNCHANGED <<errClass, db, processUp, failed, raced>>

\* a call made by a caller that keeps one ingestion in flight at a time
StartSerial(p, f, o) ==
    /\ \A q \in Calls : ~InFlight(q)
    /\ Start(p, f, o)

\* "data": the next row is normalized and pushed
OnData(p) ==
    /\ processUp /\ pc[p] = "streaming"
    /\ Len(results[p]) < Len(filePath[p])
    /\ results' = [results EXCEPT ![p] =
          Append(@, NormalizeRow(filePath[p][Len(@) + 1], userId[p]))]
    /\ UNCHANGED <<pc, filePath, userId, errClass, db, processUp,
                   failed, before, settledBefore, raced>>

\* "end": the handler starts and awaits the count
OnEnd(p) ==
    /\ processUp /\ pc[p] = "streaming"
    /\ Len(results[p]) = Len(filePath[p])
    /\ pc' = [pc EXCEPT ![p] = "counting"]
    /\ UNCHANGED <<filePath, userId, results, errClass, db, processUp,
                   failed, before, settledBefore, raced>>

\* a faulty variant of RejectDatabase: reject(err) with the error as caught;
\* the collection is left to the step that failed
RejectRaw(p, step) ==
    /\ pc' = [pc EXCEPT ![p] = "rejected"]
    /\ errClass' = [errClass EXCEPT ![p] = "Error"]
    /\ failed' = [failed EXCEPT ![p] = step]
    /\ UNCHANGED <<filePath, userId, results, processUp, before, settledBefore, raced>>

\* reject(new DatabaseError(...)) in the catch of the "end" handler; the
\* collection is left to the step that failed
RejectDatabase(p, step) ==
    /\ pc' = [pc EXCEPT ![p] = "rejected"]
    /\ errClass' = [errClass EXCEPT ![p] = "DatabaseError"]
    /\ failed' = [failed EXCEPT ![p] = step]
    /\ UNCHANGED <<filePath, userId, results, processUp, before, settledBefore, raced>>

\* Esop.find({ userId }).countDocuments() answers
CountOk(p) ==
    /\ processUp /\ pc[p] = "counting"
    /\ pc' = [pc EXCEPT ![p] = "deleting"]
    /\ UNCHANGED <<filePath, userId, results, errClass, db, processUp,
                   failed, before, settledBefore, raced>>

CountFail(p) ==
    /\ processUp /\ pc[p] = "counting"
    /\ db' = db
    /\ RejectDatabase(p, "count")

\* Esop.deleteMany({ userId }) answers
DeleteOk(p) ==
    /\ processUp /\ pc[p] = "deleting"
    /\ db' = DeleteMany(db, userId[p])
    /\ pc' = [pc EXCEPT ![p] = "inserting"]
    /\ UNCHANGED <<filePath, userId, results, errClass, processUp,
                   failed, before, settledBefore, raced>>

\* Esop.deleteMany({ userId }) fails: the command runs in no transaction, so
\* the documents it removed before it failed stay removed
DeleteFail(p) ==
    /\ processUp /\ pc[p] = "deleting"
    /\ \E k \in 0..Len(Find(db, userId[p])) :
          /\ k = 0 \/ k < Len(Find(db, userId[p]))
          /\ db' = DeleteFirst(db, userId[p], k)
    /\ RejectDatabase(p, "delete")

\* Esop.insertMany(results) answers and the promise resolves
InsertOk(p) ==
    /\ processUp /\ pc[p] = "inserting"
    /\ Valid(results[p])
    /\ db' = InsertMany(db, results[p])
    /\ pc' = [pc EXCEPT ![p] = "resolved"]
    /\ raced' = [raced EXCEPT ![p] =
          {q \in Calls \ {p} : userId[q] = userId[p] /\ pc[q] = "inserting"}]
    /\ UNCHANGED <<filePath, userId, results, errClass, processUp,
                   failed, before, settledBefore>>

\* Esop.insertMany(results) fails: a document that cannot be cast fails the
\* validation, before anything is sent; a write error of the ordered insert
\* stops it at one document and the documents before that one stay stored
InsertFail(p) ==
    /\ processUp /\ pc[p] = "inserting"
    /\ \E k \in 0..Len(results[p]) :
          /\ k = 0 \/ (Valid(results[p]) /\ k < Len(results[p]))
          /\ db' = InsertMany(db, SubSeq(results[p], 1, k))
    /\ RejectDatabase(p, "insert")

\* "error" of the parser stream, the stream the handlers are attached to:
\* reject(err) with the parser's own error
ParserError(p) ==
    /\ processUp /\ pc[p] = "streaming"
    /\ pc' = [pc EXCEPT ![p] = "rejected"]
    /\ errClass' = [errClass EXCEPT ![p] = "Error"]
    /\ failed' = [failed EXCEPT ![p] = "parser"]
    /\ UNCHANGED <<filePath, userId, results, db, processUp, before, settledBefore, raced>>

\* "error" of the file read stream (the file cannot be opened or read): pipe()
\* returned the parser, so no handler of the call listens on the read stream.
\* The parser is never ended, the promise stays pending, and the error event
\* without listener is thrown as an uncaught exception, which ends the
\* process unless the application installed a handler for it.
FileError(p, survives) ==
    /\ processUp /\ pc[p] = "streaming"
    /\ pc' = [pc EXCEPT ![p] = "stalled"]
    /\ failed' = [failed EXCEPT ![p] = "file"]
    /\ processUp' = survives
    /\ UNCHANGED <<filePath, userId, results, errClass, db, before, settledBefore, raced>>

(***************************************************************************)
(* Initial states of the components.                                       *)
(***************************************************************************)
InitIngest ==
    /\ pc = [p \in Calls |-> "idle"]
    /\ filePath = [p \in Calls |-> NoFile]
    /\ userId = [p \in Calls |-> NoOwner]
    /\ results = [p \in Calls |-> <<>>]
    /\ errClass = [p \in Calls |-> "none"]
    /\ db \in InitDbs
    /\ processUp = TRUE
    /\ failed = [p \in Calls |-> "none"]
    /\ before = [p \in Calls |-> <<>>]
    /\ settledBefore = [p \in Calls |-> {}]
    /\ raced = [p \in Calls |-> {}]

RestNorm == data = <<>> /\ processedRow = <<>> /\ normPc = "off"

RestDate == dateString = <<>> /\ date = Null /\ datePc = "off"

RestSim ==
    /\ riskTolerance = "medium" /\ timeHorizon = 0
    /\ initialInvestment = 0 /\ goalAmount = 0
    /\ i = 0 /\ year = 0 /\ currentValue = [k |-> "fin", n |-> 0] /\ successCount = 0
    /\ successProbability = 0 /\ simPc = "off" /\ tamed = TRUE
    /\ draws = 0 /\ mediumValue = [k |-> "fin", n |-> 0] /\ mediumCount = 0

RestStrat ==
    /\ fn = "none" /\ args = <<>> /\ today = 0
    /\ first = <<>> /\ second = <<>> /\ stratPc = "off"

RestBatch ==
    /\ esopData = <<>> /\ userGoals = <<>> /\ risk = 0 /\ horizon = 0
    /\ batchResults = <<>> /\ simCalls = <<>> /\ batchPc = "off"

(***************************************************************************)
(* Ingestion: calls that may overlap (Spec) and calls that the caller      *)
(* serializes (SpecSeq).                                                   *)
(***************************************************************************)
Init == InitIngest /\ RestNorm /\ RestDate /\ RestSim /\ RestStrat /\ RestBatch

Rest == UNCHANGED <<normVars, dateVars, simVars, stratVars, batchVars>>

Next ==
    \E p \in Calls :
       \/ \E f \in Files, o \in Owners : Start(p, f, o) /\ Rest
       \/ OnData(p) /\ Rest
       \/ OnEnd(p) /\ Rest
       \/ CountOk(p) /\ Rest
       \/ CountFail(p) /\ Rest
       \/ DeleteOk(p) /\ Rest
       \/ DeleteFail(p) /\ Rest
       \/ InsertOk(p) /\ Rest
       \/ InsertFail(p) /\ Rest
       \/ ParserError(p) /\ Rest
       \/ \E survives \in BOOLEAN : FileError(p, survives) /\ Rest

Spec == Init /\ [][Next]_vars

NextSeq ==
    \E p \in Calls :
       \/ \E f \in Files, o \in Owners : StartSerial(p, f, o) /\ Rest
       \/ OnData(p) /\ Rest
       \/ OnEnd(p) /\ Rest
       \/ CountOk(p) /\ Rest
       \/ CountFail(p) /\ Rest
       \/ DeleteOk(p) /\ Rest
       \/ DeleteFail(p) /\ Rest
       \/ InsertOk(p) /\ Rest
       \/ InsertFail(p) /\ Rest
       \/ ParserError(p) /\ Rest
       \/ \E survives \in BOOLEAN : FileError(p, survives) /\ Rest

SpecSeq == Init /\ [][NextSeq]_vars

\* one call on its own (SpecOne)
NextOne ==
    \E p \in {"c1"} :
       \/ \E f \in Files, o \in Owners : Start(p, f, o) /\ Rest
       \/ OnData(p) /\ Rest
       \/ OnEnd(p) /\ Rest
       \/ CountOk(p) /\ Rest
       \/ CountFail(p) /\ Rest
       \/ DeleteOk(p) /\ Rest
       \/ DeleteFail(p) /\ Rest
       \/ InsertOk(p) /\ Rest
       \/ InsertFail(p) /\ Rest
       \/ ParserError(p) /\ Rest
       \/ \E survives \in BOOLEAN : FileError(p, survives) /\ Rest

SpecOne == Init /\ [][NextOne]_vars

\* the steps the event loop and the storage take for a call that was made:
\* the event loop runs every handler whose event is pending and the storage
\* answers every request, so a call is still going to move exactly when one
\* of these steps is possible
Step(p) ==
    \/ OnData(p) /\ Rest
    \/ OnEnd(p) /\ Rest
    \/ CountOk(p) /\ Rest
    \/ CountFail(p) /\ Rest
    \/ DeleteOk(p) /\ Rest
    \/ DeleteFail(p) /\ Rest
    \/ InsertOk(p) /\ Rest
    \/ InsertFail(p) /\ Rest
    \/ ParserError(p) /\ Rest
    \/ \E survives \in BOOLEAN : FileError(p, survives) /\ Rest

(***************************************************************************)
(* Claims about ingestion.                                                 *)
(***************************************************************************)
Holdings(o) == Find(db, o)

\* C1: when a serialized ingest succeeds, the owner's stored holdings are
\* exactly the normalized records of the file's rows, in row order, whatever
\* the owner held before.
C1_ReplacesHoldings ==
    [][\A p \in Calls :
          (pc[p] = "inserting" /\ pc'[p] = "resolved")
          => Find(db', userId[p]) = NormalizeFile(filePath[p], userId[p])]_vars

\* a call has succeeded for an owner who held other records before it
C1_Witness ==
    \E p \in Calls :
       /\ pc[p] = "resolved"
       /\ Find(before[p], userId[p]) # <<>>
       /\ Holdings(userId[p]) # <<>>
       /\ Holdings(userId[p]) = NormalizeFile(filePath[p], userId[p])
       /\ \A k \in 1..Len(Holdings(userId[p])) :
             Holdings(userId[p])[k] # Find(before[p], userId[p])[1]

\* C2: a second successful ingest of the same file for the same owner, made
\* after the first has settled, leaves the owner's holdings as the first
\* left them.
C2_Idempotent ==
    \A p, q \in Calls :
       ( /\ p # q /\ pc[p] = "resolved" /\ pc[q] = "resolved"
         /\ p \in settledBefore[q]
         /\ userId[p] = userId[q] /\ filePath[p] = filePath[q] )
       => Holdings(userId[q]) = Find(before[q], userId[q])

\* the same non-empty file was ingested twice for an owner with prior holdings
C2_Witness ==
    \E p, q \in Calls :
       /\ p # q /\ pc[p] = "resolved" /\ pc[q] = "resolved"
       /\ p \in settledBefore[q]
       /\ userId[p] = userId[q] /\ filePath[p] = filePath[q]
       /\ Len(filePath[p]) > 0
       /\ Find(before[p], userId[p]) # <<>>
       /\ Find(before[p], userId[p]) # Find(before[q], userId[q])

\* C3: once the file stream or the parser has failed, the call is rejected
\* with the stream's error, never a storage error, and nothing was deleted:
\* with no other call made, the collection is as before the call.
C3_StreamErrorRejects ==
    \A p \in Calls :
       failed[p] \in {"file", "parser"}
       => /\ pc[p] = "rejected"
          /\ errClass[p] = "Error"
          /\ (\A q \in Calls \ {p} : pc[q] = "idle") => db = before[p]

OwnStorageStep(o) ==
    \E p \in Calls :
       /\ userId[p] = o
       /\ pc[p] \in {"deleting", "inserting"}
       /\ pc'[p] # pc[p]

\* C5: an ingest never deletes or inserts a record of another owner, and
\* when two overlapping or successive calls for different owners have both
\* succeeded, each owner holds exactly the records of its own file.
C5_OwnersIndependent ==
    /\ [][\A o \in Owners : Find(db', o) # Find(db, o) => OwnStorageStep(o)]_vars
    /\ [](\A p, q \in Calls :
            (pc[p] = "resolved" /\ pc[q] = "resolved" /\ userId[p] # userId[q])
            => /\ Holdings(userId[p]) = NormalizeFile(filePath[p], userId[p])
               /\ Holdings(userId[q]) = NormalizeFile(filePath[q], userId[q]))

\* two calls for different owners overlapped (neither had settled when the
\* other started) and both succeeded with non-empty files, over prior holdings
C5_Witness ==
    \E p, q \in Calls :
       /\ pc[p] = "resolved" /\ pc[q] = "resolved" /\ userId[p] # userId[q]
       /\ p \notin settledBefore[q] /\ q \notin settledBefore[p]
       /\ Len(filePath[p]) > 0 /\ Len(filePath[q]) > 0
       /\ before[p] # <<>> /\ before[q] # <<>>

\* C6: when two calls for the same owner have both succeeded and the second
\* to insert had already deleted when the first inserted, the owner holds the
\* records of both files together.
C6_SameOwnerMerges ==
    \A p, q \in Calls :
       (pc[p] = "resolved" /\ pc[q] = "resolved" /\ q \in raced[p])
       => Holdings(userId[p]) =
             NormalizeFile(filePath[p], userId[p]) \o NormalizeFile(filePath[q], userId[p])

\* both calls reported success and the owner holds both batches, which is
\* neither file's batch alone
C6_Witness ==
    \E p, q \in Calls :
       /\ pc[p] = "resolved" /\ pc[q] = "resolved" /\ q \in raced[p]
       /\ userId[p] = userId[q]
       /\ Len(filePath[p]) > 0 /\ Len(filePath[q]) > 0
       /\ Holdings(userId[p]) # NormalizeFile(filePath[p], userId[p])
       /\ Holdings(userId[p]) # NormalizeFile(filePath[q], userId[p])
       /\ Len(Holdings(userId[p])) = Len(filePath[p]) + Len(filePath[q])

\* the call has failed: it was rejected, or its file stream broke
Failed(p) == pc[p] \in {"rejected", "stalled"}

\* C18: when a serialized ingest fails, the owner's holdings are unchanged
\* from before the call if it failed while streaming, counting or deleting,
\* and are empty (all prior records removed, no record of the new batch
\* stored) if the bulk insert failed; never a mixture or a part of the batch.
C18_FailedIngestStates ==
    [][\A p \in Calls :
          (~Failed(p) /\ pc'[p] \in {"rejected", "stalled"})
          => IF failed'[p] = "insert"
             THEN Find(db', userId[p]) = <<>>
             ELSE Find(db', userId[p]) = Find(before[p], userId[p])]_vars

\* the call was made
Started(p) == pc[p] # "idle"

\* C20: every call that has started settles, resolved or rejected: until it
\* has settled a step of the call stays possible, so that it cannot stay
\* pending forever (the steps of a call are finitely many); a settled call
\* stays as it settled; and no storage step runs for a call that has
\* rejected.
C20_SettlesOnce ==
    /\ [](\A p \in {"c1"} : Started(p) => (Settled(p) \/ ENABLED <<Step(p)>>_vars))
    /\ [][\A p \in Calls :
            Settled(p) => (pc'[p] = pc[p] /\ errClass'[p] = errClass[p])]_vars
    /\ [][(\E p \in Calls : pc[p] = "rejected") => db' = db]_vars

(***************************************************************************)
(* The normalizer on one row (SpecNorm).                                   *)
(***************************************************************************)
RestIngest ==
    /\ pc = [p \in Calls |-> "idle"]
    /\ filePath = [p \in Calls |-> NoFile]
    /\ userId = [p \in Calls |-> NoOwner]
    /\ results = [p \in Calls |-> <<>>]
    /\ errClass = [p \in Calls |-> "none"]
    /\ db = <<>>
    /\ processUp = TRUE
    /\ failed = [p \in Calls |-> "none"]
    /\ before = [p \in Calls |-> <<>>]
    /\ settledBefore = [p \in Calls |-> {}]
    /\ raced = [p \in Calls |-> {}]

IntKeys == {"totalGrants", "total_grants", "grants", "vested", "unvested", "exercised"}

PriceKeys == {"exercisePrice", "exercise_price", "price"}

DateKeys == {"grantDate", "grant_date", "Grant Date",
             "expirationDate", "expiration_date", "Expiration Date",
             "exerciseDate", "exercise_date", "Exercise Date"}

TextKeys == {"vestingSchedule", "vesting_schedule", "Vesting Schedule",
             "ticker", "symbol", "type", "option_type", "notes", "comments"}

Keys == IntKeys \cup PriceKeys \cup DateKeys \cup TextKeys \cup {"status"}

\* the cell values tried for a column: "", "0", "7", "-5", "abc" for a
\* quantity; "", "7", "1.5", "abc" for a price; "", "2024-01-15", "13/45/2024"
\* for a date; "", "ab" for a text; "Exercised" for a status column
CellValues(k) ==
    IF k \in IntKeys
    THEN {<<>>, <<"0">>, <<"7">>, <<"-", "5">>, <<"a", "b", "c">>}
    ELSE IF k \in PriceKeys
    THEN {<<>>, <<"7">>, <<"1", ".", "5">>, <<"a", "b", "c">>}
    ELSE IF k \in DateKeys
    THEN {<<>>, <<"2", "0", "2", "4", "-", "0", "1", "-", "1", "5">>,
          <<"1", "3", "/", "4", "5", "/", "2", "0", "2", "4">>}
    ELSE IF k \in TextKeys
    THEN {<<>>, <<"a", "b">>}
    ELSE {<<"E", "x", "e", "r", "c", "i", "s", "e", "d">>}

RECURSIVE KeySets(_)
\* the sets of at most n columns
KeySets(n) ==
    IF n = 0 THEN {{}}
    ELSE KeySets(n - 1) \cup {T \cup {k} : T \in KeySets(n - 1), k \in Keys}

\* the rows: up to MaxKeys columns present
RowInputs ==
    UNION {{r \in [S -> UNION {CellValues(k) : k \in S}] :
               \A k \in S : r[k] \in CellValues(k)} :
           S \in KeySets(MaxKeys)}

InitNorm ==
    /\ data \in RowInputs
    /\ processedRow = <<>>
    /\ normPc = "row"

\* the "data" handler processes the row
Normalize ==
    /\ normPc = "row"
    /\ processedRow' = NormalizeRow(data, "u1")
    /\ normPc' = "done"
    /\ UNCHANGED <<data, ingestVars, dateVars, simVars, stratVars, batchVars>>

NormInit == RestIngest /\ InitNorm /\ RestDate /\ RestSim /\ RestStrat /\ RestBatch

SpecNorm == NormInit /\ [][Normalize]_vars

(***************************************************************************)
(* parseDate on one string (SpecDate).                                     *)
(***************************************************************************)
YearStrs == {<<"2", "0", "2", "3">>, <<"2", "0", "2", "4">>}

MonthStrs == {<<"0", "1">>, <<"0", "2">>, <<"0", "5">>, <<"1", "2">>, <<"1", "3">>}

DayStrs == {<<"0", "1">>, <<"1", "2">>, <<"1", "5">>, <<"2", "9">>, <<"3", "0">>,
            <<"3", "1">>, <<"3", "2">>, <<"4", "5">>}

\* year-month-day with dashes, month/day/year with slashes, day-month-year
\* with dashes, each over all the components above, and strings that are no date
DateInputs ==
    {y \o <<"-">> \o m \o <<"-">> \o d : y \in YearStrs, m \in MonthStrs, d \in DayStrs}
    \cup {m \o <<"/">> \o d \o <<"/">> \o y : y \in YearStrs, m \in MonthStrs, d \in DayStrs}
    \cup {d \o <<"-">> \o m \o <<"-">> \o y : y \in YearStrs, m \in MonthStrs, d \in DayStrs}
    \cup {<<>>, <<"a", "b", "c">>, <<"2", "0", "2", "4">>, <<"0", "1", "/", "1", "5">>,
          <<"a", "/", "b", "/", "c">>, <<"-", "-">>}

InitDate ==
    /\ dateString \in DateInputs
    /\ date = Null
    /\ datePc = "call"

ParseDate ==
    /\ datePc = "call"
    /\ date' = parseDate(dateString)
    /\ datePc' = "done"
    /\ UNCHANGED <<dateString, ingestVars, normVars, simVars, stratVars, batchVars>>

DateInit == RestIngest /\ RestNorm /\ InitDate /\ RestSim /\ RestStrat /\ RestBatch

SpecDate == DateInit /\ [][ParseDate]_vars

(***************************************************************************)
(* Claims about the normalizer and parseDate.                              *)
(***************************************************************************)
NumericFields == {"totalGrants", "vested", "unvested", "exercised", "exercisePrice"}

\* the columns a numeric field is read from, in the order they are tried
AliasesOf(f) ==
    CASE f = "totalGrants" -> <<"totalGrants", "total_grants", "grants">>
      [] f = "exercisePrice" -> <<"exercisePrice", "exercise_price", "price">>
      [] OTHER -> <<f>>

\* the field's input is missing or empty: no column of the field is truthy
NoInput(row, f) == \A k \in 1..Len(AliasesOf(f)) : ~Truthy(row, AliasesOf(f)[k])

\* the field's input does not start with a number
NotNumeric(row, f) ==
    LET t == Unsigned(TrimLeft(OrElse(row, AliasesOf(f), <<"0">>)))
    IN  /\ DigitPrefixLen(t) = 0
        /\ ~(f = "exercisePrice" /\ Len(t) > 1 /\ t[1] = "." /\ t[2] \in Digits)

\* C7: every quantity and the exercise price of a normalized record is a
\* number (never NaN), and is zero when the row's input for the field is
\* missing, empty or not numeric.
C7_NumericOrZero ==
    normPc = "done"
    => \A f \in NumericFields :
          /\ ~processedRow[f].nan
          /\ (NoInput(data, f) \/ NotNumeric(data, f)) => processedRow[f] = Num(0)

\* C8 as stated, on the rows whose exercised quantity is a number: status is
\* "Exercised" iff exercised > 0 and "Not exercised" iff exercised = 0.
C8_StatusIffZero ==
    (normPc = "done" /\ ~processedRow.exercised.nan)
    => /\ processedRow.status = "Exercised" <=> Gt(processedRow.exercised, 0)
       /\ processedRow.status = "Not exercised" <=> processedRow.exercised = Num(0)

\* the row without its status column
WithoutStatus(row) == [k \in DOMAIN row \ {"status"} |-> row[k]]

\* C8 as amended: status is "Exercised" iff the normalized exercised quantity
\* is > 0 and "Not exercised" in every other case (exercised zero, negative or
\* NaN); the row's status column does not change the record.
C8_StatusFromExercised ==
    normPc = "done"
    => /\ processedRow.status = "Exercised" <=> Gt(processedRow.exercised, 0)
       /\ processedRow.status = "Not exercised" <=> ~Gt(processedRow.exercised, 0)
       /\ processedRow.status \in {"Exercised", "Not exercised"}
       /\ processedRow = NormalizeRow(WithoutStatus(data), "u1")

\* a row with a status column "Exercised" and exercised "0" was normalized to
\* "Not exercised"
C8_Witness ==
    /\ normPc = "done"
    /\ "status" \in DOMAIN data
    /\ "exercised" \in DOMAIN data
    /\ data["exercised"] = <<"0">>
    /\ processedRow.exercised = Num(0)
    /\ processedRow.status = "Not exercised"

\* the calendar date a string of a supported format spells out: year-month-day
\* (4-2-2 digits, dashes), month/day/year (slashes) or day-month-year (dashes)
\* with the month in 1..12 and the day within the month; null for anything else
LiteralDate(s) ==
    LET pd  == Split(s, "-")
        ps  == Split(s, "/")
        n(x) == DigitsValue(x, 0)
        inRange(y, m, d) ==
            IF m \in 1..12 /\ d >= 1 /\ d <= DaysInMonth(y, IF m \in 1..12 THEN m ELSE 1)
            THEN DateOf(y, m, d) ELSE Null
        short(x) == Len(x) \in 1..2
    IN  IF Len(pd) = 3 /\ \A k \in 1..3 : AllDigits(pd[k])
        THEN IF Len(pd[1]) = 4 /\ Len(pd[2]) = 2 /\ Len(pd[3]) = 2
             THEN inRange(n(pd[1]), n(pd[2]), n(pd[3]))
             ELSE IF short(pd[1]) /\ short(pd[2]) /\ Len(pd[3]) = 4
             THEN inRange(n(pd[3]), n(pd[2]), n(pd[1]))
             ELSE Null
        ELSE IF /\ Len(ps) = 3 /\ \A k \in 1..3 : AllDigits(ps[k])
                /\ short(ps[1]) /\ short(ps[2]) /\ Len(ps[3]) = 4
        THEN inRange(n(ps[3]), n(ps[1]), n(ps[2]))
        ELSE Null

\* C9: parseDate returns the date a string of a supported format spells out,
\* and null for an empty or unparseable string or one with an out-of-range
\* month or day.
C9_DateMatchesLiteral == datePc = "done" => date = LiteralDate(dateString)

IntFields == {"totalGrants", "vested", "unvested", "exercised"}

DateFields == {"grantDate", "expirationDate", "exerciseDate"}

TextFields == {"vestingSchedule", "ticker", "type", "notes"}

\* the alias keys of a canonical field, in the order they are tried
AliasOrder(f) ==
    CASE f = "totalGrants" -> <<"totalGrants", "total_grants", "grants">>
      [] f = "exercisePrice" -> <<"exercisePrice", "exercise_price", "price">>
      [] f = "grantDate" -> <<"grantDate", "grant_date", "Grant Date">>
      [] f = "expirationDate" -> <<"expirationDate", "expiration_date", "Expiration Date">>
      [] f = "exerciseDate" -> <<"exerciseDate", "exercise_date", "Exercise Date">>
      [] f = "vestingSchedule" -> <<"vestingSchedule", "vesting_schedule", "Vesting Schedule">>
      [] f = "ticker" -> <<"ticker", "symbol">>
      [] f = "type" -> <<"type", "option_type">>
      [] f = "notes" -> <<"notes", "comments">>
      [] OTHER -> <<f>>

\* the default of a text field
TextDefault(f) ==
    CASE f = "vestingSchedule" -> StandardStr [] f = "ticker" -> NAStr
      [] f = "type" -> ISOStr [] f = "notes" -> <<>>

RECURSIVE PickFirst(_, _, _, _)
\* the value of the first key of keys that the row has, or has with a
\* non-empty value when skipEmpty holds; dflt when there is none
PickFirst(row, keys, skipEmpty, dflt) ==
    IF keys = <<>> THEN dflt
    ELSE IF Head(keys) \in DOMAIN row /\ (~skipEmpty \/ row[Head(keys)] # <<>>)
    THEN row[Head(keys)]
    ELSE PickFirst(row, Tail(keys), skipEmpty, dflt)

\* a number with NaN taken as zero
ZeroIfNaN(x) == IF x.nan THEN Num(0) ELSE x

\* C19 as stated: every field of the record is the converted value of the
\* first alias key present in the row, an empty value included, and the
\* field's default when no alias key is present (a numeric value that does
\* not parse counting as zero); quantity and price equal totalGrants and
\* exercisePrice.
C19_FirstPresentAlias ==
    normPc = "done"
    => /\ \A f \in IntFields :
             ZeroIfNaN(processedRow[f])
             = ZeroIfNaN(parseInt(PickFirst(data, AliasOrder(f), FALSE, <<"0">>)))
       /\ ZeroIfNaN(processedRow.exercisePrice)
          = ZeroIfNaN(parseFloat(PickFirst(data, AliasOrder("exercisePrice"), FALSE,
                                           <<"0">>)))
       /\ \A f \in DateFields :
             processedRow[f] = parseDate(PickFirst(data, AliasOrder(f), FALSE, <<>>))
       /\ \A f \in TextFields \ {"ticker"} :
             processedRow[f] = PickFirst(data, AliasOrder(f), FALSE, TextDefault(f))
       /\ processedRow.ticker
          = toUpperCase(PickFirst(data, AliasOrder("ticker"), FALSE, NAStr))
       /\ processedRow.quantity = processedRow.totalGrants
       /\ processedRow.price = processedRow.exercisePrice

\* C19 as amended: every field of the record is the converted value of the
\* first alias key, in alias order, that the row has with a non-empty value,
\* also when a later alias carries a different value, and the field's default
\* when no alias key has a non-empty value; quantity and price equal
\* totalGrants and exercisePrice.
C19_FirstNonEmptyAlias ==
    normPc = "done"
    => /\ \A f \in IntFields :
             processedRow[f] = parseInt(PickFirst(data, AliasOrder(f), TRUE, <<"0">>))
       /\ processedRow.exercisePrice
          = parseFloat(PickFirst(data, AliasOrder("exercisePrice"), TRUE, <<"0">>))
       /\ \A f \in DateFields :
             processedRow[f] = parseDate(PickFirst(data, AliasOrder(f), TRUE, <<>>))
       /\ \A f \in TextFields \ {"ticker"} :
             processedRow[f] = PickFirst(data, AliasOrder(f), TRUE, TextDefault(f))
       /\ processedRow.ticker
          = toUpperCase(PickFirst(data, AliasOrder("ticker"), TRUE, NAStr))
       /\ processedRow.quantity = processedRow.totalGrants
       /\ processedRow.price = processedRow.exercisePrice

\* a row whose totalGrants cell is empty and whose grants cell is "7" gave a
\* record with 7 grants, in quantity too
C19_Witness ==
    /\ normPc = "done"
    /\ "totalGrants" \in DOMAIN data /\ data["totalGrants"] = <<>>
    /\ "grants" \in DOMAIN data /\ data["grants"] = <<"7">>
    /\ processedRow.totalGrants = Num(7)
    /\ processedRow.quantity = Num(7)

(***************************************************************************)
(* runSimulation (SpecSim).  Returns are held in percent, so a compounding *)
(* factor 1 + annualReturn is (100 + annualReturn) / 100, and after `year` *)
(* steps currentValue.n is the value times 100^year.  A value is finite    *)
(* ("fin"), +Infinity ("pinf"), -Infinity ("ninf") or NaN ("nan").         *)
(***************************************************************************)
Fin(n) == [k |-> "fin", n |-> n]

PInf == [k |-> "pinf", n |-> 0]

NInf == [k |-> "ninf", n |-> 0]

NaNValue == [k |-> "nan", n |-> 0]

\* sign of a value that is not NaN
Sign(x) ==
    IF x.k = "pinf" THEN 1 ELSE IF x.k = "ninf" THEN -1
    ELSE IF x.n > 0 THEN 1 ELSE IF x.n < 0 THEN -1 ELSE 0

\* the product of two values: NaN with NaN and for 0 times an infinity, an
\* infinity of the product's sign when a factor is infinite
Times(x, y) ==
    IF x.k = "nan" \/ y.k = "nan" THEN NaNValue
    ELSE IF x.k = "fin" /\ y.k = "fin" THEN Fin(x.n * y.n)
    ELSE IF Sign(x) * Sign(y) = 0 THEN NaNValue
    ELSE IF Sign(x) * Sign(y) > 0 THEN PInf ELSE NInf

\* mean and stdDev of the risk profiles, in percent
riskProfiles ==
    [ low    |-> [mean |-> 6, stdDev |-> 8],
      medium |-> [mean |-> 9, stdDev |-> 15],
      high   |-> [mean |-> 12, stdDev |-> 22] ]

\* property names that the object literal inherits from Object.prototype
ObjectPrototype == {"constructor", "toString", "valueOf", "hasOwnProperty", "__proto__"}

\* riskProfiles[riskTolerance] is an inherited property: a function or the
\* prototype object, which is truthy and has neither mean nor stdDev, so that
\* the destructuring leaves both undefined
Inherited(rt) == rt \notin DOMAIN riskProfiles /\ rt \in ObjectPrototype

\* riskProfiles[riskTolerance] || riskProfiles.medium, where the lookup is an
\* own property or undefined
ProfileOf(rt) == IF rt \in DOMAIN riskProfiles THEN riskProfiles[rt] ELSE riskProfiles.medium

\* the values of Math.random() tried for u1 and for u2
U1Draws == {"0", "exp(-18)", "exp(-1/2)"}

U2Draws == {"0", "1/2"}

\* Math.sqrt(-2.0 * Math.log(u1)): log(0) is -Infinity
Radius(u1) ==
    CASE u1 = "0" -> PInf
      [] u1 = "exp(-18)" -> Fin(6)
      [] u1 = "exp(-1/2)" -> Fin(1)

\* Math.cos(2.0 * Math.PI * u2)
Cosine(u2) == IF u2 = "0" THEN Fin(1) ELSE Fin(-1)

\* z of the Box-Muller transform
BoxMuller(u1, u2) == Times(Radius(u1), Cosine(u2))

\* 1 + mean + z * stdDev, in percent; NaN when mean and stdDev are undefined
Factor(rt, z) ==
    IF Inherited(rt) THEN NaNValue
    ELSE IF z.k = "fin" THEN Fin(100 + ProfileOf(rt).mean + z.n * ProfileOf(rt).stdDev)
    ELSE z

RECURSIVE Pow100(_)
Pow100(n) == IF n = 0 THEN 1 ELSE 100 * Pow100(n - 1)

\* a faulty variant of ReachesGoal: currentValue > goalAmount
ReachesGoalStrict(x, goal, years) ==
    \/ x.k = "pinf"
    \/ x.k = "fin" /\ x.n > goal * Pow100(years)

\* currentValue >= goalAmount at the end of a trial, false for NaN
ReachesGoal(x, goal, years) ==
    \/ x.k = "pinf"
    \/ x.k = "fin" /\ x.n >= goal * Pow100(years)

\* parseFloat(((successCount / scenarios) * 100).toFixed(2)), in hundredths
\* of a percent: the quotient rounded to the nearest hundredth
ToProbability(count) == (2 * count * 100 * 100 + scenarios) \div (2 * scenarios)

RiskInputs == {"low", "medium", "high", "extreme", "constructor"}

InvestmentInputs == {-1, 0, 2}

GoalInputs == {0, 3}

InitSim ==
    /\ riskTolerance \in RiskInputs
    /\ timeHorizon \in 0..MaxHorizon
    /\ initialInvestment \in InvestmentInputs
    /\ goalAmount \in GoalInputs
    /\ i = 0 /\ successCount = 0
    /\ year = 0 /\ currentValue = Fin(initialInvestment)
    /\ successProbability = 0
    /\ simPc = "loop"
    /\ tamed = TRUE
    /\ draws = 0 /\ mediumValue = Fin(initialInvestment) /\ mediumCount = 0

SimInputs == <<riskTolerance, timeHorizon, initialInvestment, goalAmount>>

\* a faulty variant of Compound: the year loop runs while year <= timeHorizon
CompoundInclusive(u1, u2) ==
    /\ simPc = "loop" /\ i < scenarios /\ year <= timeHorizon
    /\ currentValue' = Times(currentValue, Factor(riskTolerance, BoxMuller(u1, u2)))
    /\ mediumValue' = Times(mediumValue, Factor("medium", BoxMuller(u1, u2)))
    /\ tamed' = tamed
    /\ draws' = draws + 2
    /\ year' = year + 1
    /\ UNCHANGED <<SimInputs, i, successCount, successProbability, simPc, mediumCount>>

\* one year of a trial: two uniform draws, the return, the compounding
Compound(u1, u2) ==
    /\ simPc = "loop" /\ i < scenarios /\ year < timeHorizon
    /\ LET f == Factor(riskTolerance, BoxMuller(u1, u2))
       IN  /\ currentValue' = Times(currentValue, f)
           /\ tamed' = (tamed /\ f.k = "fin" /\ f.n > 0)
    /\ mediumValue' = Times(mediumValue, Factor("medium", BoxMuller(u1, u2)))
    /\ draws' = draws + 2
    /\ year' = year + 1
    /\ UNCHANGED <<SimInputs, i, successCount, successProbability, simPc, mediumCount>>

\* the end of a trial: the comparison with the goal, and the next trial
EndTrial ==
    /\ simPc = "loop" /\ i < scenarios /\ year = timeHorizon
    /\ successCount' = IF ReachesGoal(currentValue, goalAmount, timeHorizon)
                       THEN successCount + 1 ELSE successCount
    /\ mediumCount' = IF ReachesGoal(mediumValue, goalAmount, timeHorizon)
                      THEN mediumCount + 1 ELSE mediumCount
    /\ i' = i + 1
    /\ year' = 0 /\ currentValue' = Fin(initialInvestment)
    /\ mediumValue' = Fin(initialInvestment)
    /\ UNCHANGED <<SimInputs, successProbability, simPc, tamed, draws>>

\* the result
Return ==
    /\ simPc = "loop" /\ i = scenarios
    /\ successProbability' = ToProbability(successCount)
    /\ simPc' = "done"
    /\ UNCHANGED <<SimInputs, i, year, currentValue, successCount, tamed,
                   draws, mediumValue, mediumCount>>

RestOfSim == UNCHANGED <<ingestVars, normVars, dateVars, stratVars, batchVars>>

NextSim ==
    \/ \E u1 \in U1Draws, u2 \in U2Draws : Compound(u1, u2) /\ RestOfSim
    \/ EndTrial /\ RestOfSim
    \/ Return /\ RestOfSim

SimInit == RestIngest /\ RestNorm /\ RestDate /\ InitSim /\ RestStrat /\ RestBatch

SpecSim == SimInit /\ [][NextSim]_vars

(***************************************************************************)
(* Claims about runSimulation.                                             *)
(***************************************************************************)
\* C10 as stated, for the initial values >= 0: with goal value 0 the success
\* probability is 100, whatever the risk tolerance, the horizon and the draws.
C10_GoalZeroAlways100 ==
    (simPc = "done" /\ goalAmount = 0 /\ initialInvestment >= 0)
    => successProbability = 100 * 100

\* C10 as amended: with goal value 0 and an initial value >= 0 the success
\* probability is 100 whenever every compounding factor drawn was > 0.
C10_GoalZeroTamed100 ==
    (simPc = "done" /\ goalAmount = 0 /\ initialInvestment >= 0 /\ tamed)
    => successProbability = 100 * 100

\* a simulation over a positive horizon, from a positive initial value, with
\* goal 0 ended at 100
C10_Witness ==
    /\ simPc = "done" /\ goalAmount = 0 /\ initialInvestment > 0 /\ tamed
    /\ timeHorizon > 0 /\ riskTolerance = "high"
    /\ successProbability = 100 * 100

\* C11: with a horizon of 0 years no random number is drawn and no
\* compounding step is made, and the success probability is 100 if the initial
\* value is >= the goal value and 0 otherwise, for every risk tolerance.
C11_HorizonZero ==
    timeHorizon = 0
    => /\ draws = 0 /\ year = 0
       /\ currentValue = Fin(initialInvestment)
       /\ simPc = "done"
          => successProbability =
                 (IF initialInvestment >= goalAmount THEN 100 * 100 ELSE 0)

\* a simulation over 0 years whose initial value is below its goal ended at 0
C11_Witness ==
    /\ simPc = "done" /\ timeHorizon = 0 /\ i = scenarios
    /\ initialInvestment > 0 /\ initialInvestment < goalAmount
    /\ draws = 0 /\ successProbability = 0

\* C12: for a risk tolerance other than low, medium and high the simulation
\* runs with the medium profile: under the same draws its values, its count of
\* successes and its result are those of riskProfiles.medium.
C12_UnrecognizedIsMedium ==
    riskTolerance \notin {"low", "medium", "high"}
    => /\ currentValue = mediumValue
       /\ successCount = mediumCount
       /\ simPc = "done" => successProbability = ToProbability(mediumCount)

(***************************************************************************)
(* The strategy synthesizer (services/strategyService.js).  Objects with   *)
(* optional properties (userGoals, the parts of analyticsSummary and of    *)
(* marketContext) are functions from the property names present to        *)
(* numbers or booleans.  A templated text is the record of the values      *)
(* substituted into it.  Percentages with decimals are held in tenths.     *)
(***************************************************************************)
\* obj[k] || dflt for a numeric property: a missing property and 0 are falsy
OrDefault(obj, k, dflt) == IF k \in DOMAIN obj /\ obj[k] # 0 THEN obj[k] ELSE dflt

\* the savings rate as the fraction num / den of a percent number
SavingsRate(monthlyIncome, monthlyExpenses) ==
    IF monthlyIncome > 0
    THEN [num |-> (monthlyIncome - monthlyExpenses) * 100, den |-> monthlyIncome]
    ELSE [num |-> 30, den |-> 1]

\* savingsRate > n
Exceeds(rate, n) == rate.num > n * rate.den

\* savingsRate.toFixed(1) of a rate >= 0, in tenths
ToFixed1(rate) == (2 * 10 * rate.num + rate.den) \div (2 * rate.den)

\* a faulty variant of HasRetirementFocus: age >= 45 || yearsToRetirement <= 15
HasRetirementFocusInclusive(age, retirementAge) ==
    age >= 45 \/ retirementAge - age <= 15

\* hasRetirementFocus
HasRetirementFocus(age, retirementAge) == age > 45 \/ retirementAge - age < 15

baseStrategies(planningRegion) ==
    [ low    |-> [ focus            |-> "capital preservation and modest growth",
                   bondAllocation   |-> IF planningRegion = "us" THEN 60 ELSE 50,
                   equityAllocation |-> IF planningRegion = "us" THEN 30 ELSE 40,
                   altAllocation    |-> 10,
                   equityStyle      |-> "large-cap value and dividend stocks",
                   bondStyle        |-> "government and high-grade corporate bonds",
                   altInvestments   |-> <<"REITs", "Gold">> ],
      medium |-> [ focus            |-> "balanced growth with moderate risk",
                   bondAllocation   |-> 40,
                   equityAllocation |-> 50,
                   altAllocation    |-> 10,
                   equityStyle      |-> "blend of growth and value stocks across market caps",
                   bondStyle        |-> "mix of government and corporate bonds",
                   altInvestments   |-> <<"REITs", "Gold", "Commodities">> ],
      high   |-> [ focus            |-> "aggressive growth accepting higher volatility",
                   bondAllocation   |-> 20,
                   equityAllocation |-> 70,
                   altAllocation    |-> 10,
                   equityStyle      |-> "growth-oriented stocks with small/mid-cap exposure",
                   bondStyle        |-> "corporate and emerging market bonds",
                   altInvestments   |-> <<"REITs", "Commodities", "Private Equity">> ] ]

\* the funds of a region; index 1 is the source's index 0
etfExamples ==
    [ us |->
        [ largeCap      |-> <<"Vanguard S&P 500 ETF (VOO)", "SPDR S&P 500 ETF (SPY)",
                              "iShares Core S&P 500 ETF (IVV)">>,
          midSmallCap   |-> <<"Vanguard Mid-Cap ETF (VO)", "iShares Russell 2000 ETF (IWM)",
                              "Vanguard Small-Cap ETF (VB)">>,
          international |-> <<"Vanguard Total International Stock ETF (VXUS)",
                              "iShares MSCI EAFE ETF (EFA)">>,
          bonds         |-> <<"iShares Core U.S. Aggregate Bond ETF (AGG)",
                              "Vanguard Total Bond Market ETF (BND)">>,
          dividend      |-> <<"Vanguard High Dividend Yield ETF (VYM)",
                              "SPDR Portfolio S&P 500 High Dividend ETF (SPYD)">>,
          growth        |-> <<"Vanguard Growth ETF (VUG)", "Invesco QQQ Trust (QQQ)">>,
          value         |-> <<"Vanguard Value ETF (VTV)", "iShares S&P 500 Value ETF (IVE)">>,
          sectors       |-> <<"Technology Select Sector SPDR Fund (XLK)",
                              "Health Care Select Sector SPDR Fund (XLV)">>,
          alternatives  |-> <<"Vanguard Real Estate ETF (VNQ)", "SPDR Gold Shares (GLD)">> ],
      india |->
        [ largeCap      |-> <<"Nippon India ETF Nifty BeES (NIFTYBEES)", "SBI Nifty Index Fund",
                              "HDFC Index Fund - Sensex Plan">>,
          midSmallCap   |-> <<"Motilal Oswal Nasdaq 100 ETF (MON100)",
                              "Nippon India ETF Junior BeES (JUNIORBEES)">>,
          international |-> <<"Franklin India Feeder - Franklin U.S. Opportunities Fund",
                              "ICICI Prudential US Bluechip Equity Fund">>,
          bonds         |-> <<"SBI ETF - Liquid Fund", "HDFC Short Term Debt Fund",
                              "ICICI Prudential Short Term Fund">>,
          dividend      |-> <<"ICICI Prudential Dividend Yield Equity Fund",
                              "UTI Dividend Yield Fund">>,
          growth        |-> <<"HDFC Growth Opportunities Fund",
                              "Axis Growth Opportunities Fund">>,
          value         |-> <<"ICICI Prudential Value Discovery Fund",
                              "Kotak India EQ Contra Fund">>,
          sectors       |-> <<"ICICI Prudential Technology Fund", "Tata Digital India Fund">>,
          alternatives  |-> <<"SBI Gold Fund", "HDFC Gold Fund",
                              "ICICI Prudential Regular Gold Savings Fund">> ] ]

\* riskTolerance === 'high' ? h : riskTolerance === 'medium' ? m : l
ByRisk(rt, h, m, l) == IF rt = "high" THEN h ELSE IF rt = "medium" THEN m ELSE l

\* Math.min
Min(a, b) == IF a < b THEN a ELSE b

\* planningRegion === 'us' ? a : b
ByRegion(planningRegion, a, b) == IF planningRegion = "us" THEN a ELSE b

\* the third branch of the fourth strategy
FinancialSafety(planningRegion, rt, monthlyExpenses) ==
    LET regionETFs == etfExamples[planningRegion]
    IN  [ title       |-> "Financial Safety Strategy",
          description |-> <<>>,
          examples    |-> IF rt = "low"
                          THEN <<regionETFs.bonds[1], regionETFs.alternatives[1],
                                 "High-yield savings">>
                          ELSE <<regionETFs.value[1], regionETFs.dividend[1],
                                 regionETFs.bonds[1]>>,
          allocation  |-> ByRisk(rt, 5, 15, 25),
          detailedAdvice |->
              [ months   |-> IF rt = "low" THEN "12" ELSE IF rt = "medium" THEN "6" ELSE "3",
                currency |-> ByRegion(planningRegion, "$", "Rs"),
                reserve  |-> monthlyExpenses
                             * (IF rt = "low" THEN 12 ELSE IF rt = "medium" THEN 6 ELSE 3) ] ]

\* the second branch of the fourth strategy
OpportunisticGrowth(planningRegion, rt, savingsRate, investmentHorizon) ==
    LET regionETFs == etfExamples[planningRegion]
    IN  [ title       |-> "Opportunistic Growth Strategy",
          description |-> [ savingsRate |-> ToFixed1(savingsRate),
                            markets |-> ByRegion(planningRegion, "US and global markets",
                                                 "Indian and emerging markets") ],
          examples    |-> <<regionETFs.midSmallCap[1], regionETFs.growth[2],
                            regionETFs.sectors[2]>>,
          allocation  |-> ByRisk(rt, 5, 15, 10),
          detailedAdvice |-> [ savingsRate |-> ToFixed1(savingsRate),
                               investmentHorizon |-> investmentHorizon ] ]

\* the first branch of the fourth strategy
RetirementIncome(planningRegion, rt, yearsToRetirement, retirementAge, strategyBase) ==
    LET regionETFs == etfExamples[planningRegion]
    IN  [ title       |-> "Retirement Income Strategy",
          description |-> [ yearsToRetirement |-> yearsToRetirement,
                            retirementAge |-> retirementAge ],
          examples    |-> <<regionETFs.dividend[1], regionETFs.bonds[1],
                            regionETFs.alternatives[1]>>,
          allocation  |-> ByRisk(rt, 5, 15, 25),
          detailedAdvice |->
              [ yearsToRetirement |-> yearsToRetirement,
                retirementAge |-> retirementAge,
                bondAllocation |-> strategyBase.bondAllocation,
                glidePath |-> Min(strategyBase.bondAllocation + (2 * (15 - yearsToRetirement)),
                                  70),
                market |-> ByRegion(planningRegion, "the US market", "India") ] ]

\* generateDetailedStrategies(planningRegion, riskTolerance, userGoals) for a
\* region in etfExamples and a risk tolerance in baseStrategies
generateDetailedStrategies(planningRegion, rt, goals) ==
    LET age               == OrDefault(goals, "currentAge", 35)
        retirementAge     == OrDefault(goals, "retirementAge", 60)
        investmentHorizon == OrDefault(goals, "investmentHorizon", 10)
        monthlyIncome     == OrDefault(goals, "monthlyIncome", 100000)
        monthlyExpenses   == OrDefault(goals, "monthlyExpenses", 50000)
        savingsRate       == SavingsRate(monthlyIncome, monthlyExpenses)
        yearsToRetirement == retirementAge - age
        hasRetirementFocus == HasRetirementFocus(age, retirementAge)
        regionETFs        == etfExamples[planningRegion]
        strategyBase      == baseStrategies(planningRegion)[rt]
        core ==
            [ title       |-> "Core Investment Strategy",
              description |-> [ focus |-> strategyBase.focus,
                                equityAllocation |-> strategyBase.equityAllocation,
                                bondAllocation |-> strategyBase.bondAllocation ],
              examples    |-> IF rt = "high"
                              THEN <<regionETFs.growth[1], regionETFs.growth[2],
                                     regionETFs.midSmallCap[1]>>
                              ELSE IF rt = "medium"
                              THEN <<regionETFs.largeCap[1], regionETFs.bonds[1],
                                     regionETFs.international[1]>>
                              ELSE <<regionETFs.largeCap[1], regionETFs.bonds[1],
                                     regionETFs.bonds[2]>>,
              allocation  |-> ByRisk(rt, 70, 60, 50),
              detailedAdvice |-> [ riskTolerance |-> rt, age |-> age,
                                   region |-> ByRegion(planningRegion, "US", "INDIA"),
                                   investmentHorizon |-> investmentHorizon,
                                   equityStyle |-> strategyBase.equityStyle,
                                   hasRetirementFocus |-> hasRetirementFocus,
                                   bondAllocation |-> strategyBase.bondAllocation,
                                   bondStyle |-> strategyBase.bondStyle ] ]
        sector ==
            [ title       |-> "Sector Allocation Strategy",
              description |-> [ age |-> age,
                                market |-> ByRegion(planningRegion, "US", "Indian"),
                                riskTolerance |-> rt ],
              examples    |-> <<regionETFs.sectors[1], regionETFs.sectors[2],
                                regionETFs.growth[1]>>,
              allocation  |-> ByRisk(rt, 20, 15, 10),
              detailedAdvice |-> [ riskTolerance |-> rt, age |-> age,
                                   range |-> ByRisk(rt, "15-20%", "10-15%", "5-10%"),
                                   hasRetirementFocus |-> hasRetirementFocus,
                                   market |-> ByRegion(planningRegion, "the US", "India") ] ]
        esop ==
            [ title       |-> "ESOP Diversification Strategy",
              description |-> <<>>,
              examples    |-> <<ByRisk(rt, "Sell 15-20% of vested shares annually",
                                       "Sell 10-15% of vested shares annually",
                                       "Sell 5-10% of vested shares annually"),
                                "Reinvest proceeds in core strategy",
                                regionETFs.international[1]>>,
              allocation  |-> ByRisk(rt, 5, 10, 15),
              detailedAdvice |-> <<>> ]
        fourthStrategy ==
            IF hasRetirementFocus
            THEN RetirementIncome(planningRegion, rt, yearsToRetirement, retirementAge,
                                  strategyBase)
            ELSE IF Exceeds(savingsRate, 30)
            THEN OpportunisticGrowth(planningRegion, rt, savingsRate, investmentHorizon)
            ELSE FinancialSafety(planningRegion, rt, monthlyExpenses)
    IN  <<core, sector, esop, fourthStrategy>>

\* n / d rounded to the nearest integer, for n >= 0 and d > 0
RoundDiv(n, d) == (2 * n + d) \div (2 * d)

advisories ==
    [ us |->
        [ high   |-> <<"Consider using trailing stop-loss orders at 15-20% below current price",
                       "Implement option collar strategies to limit downside while capping upside",
                       "Maintain 10-15% cash position for opportunistic buying during corrections",
                       "Review portfolio monthly and rebalance when allocation drifts >5%">>,
          medium |-> <<"Use dollar-cost averaging to reduce timing risk",
                       "Maintain 20-25% in bonds and fixed income for stability",
                       "Consider adding defensive sector ETFs (utilities, consumer staples)",
                       "Rebalance quarterly to maintain target allocation">>,
          low    |-> <<"Focus on capital preservation with 50%+ in bonds",
                       "Use Treasury Inflation-Protected Securities (TIPS) for inflation hedge",
                       "Maintain 6-12 month emergency fund in high-yield savings",
                       "Review allocation annually and adjust as needed">> ],
      india |->
        [ high   |-> <<"Use systematic withdrawal plans (SWP) to lock in gains periodically",
                       "Maintain adequate emergency buffer given higher market volatility",
                       "Consider adding gold (5-10%) as portfolio insurance",
                       "Review concentration risk in single stocks/sectors monthly">>,
          medium |-> <<"Balance equity exposure with debt mutual funds",
                       "Use arbitrage funds for tax-efficient short-term parking",
                       "Maintain 3-6 month expenses in liquid funds",
                       "Rebalance when equity allocation exceeds target by >10%">>,
          low    |-> <<"Stay within your emergency-fund buffer of 6-12 months",
                       "Add government bonds and high-rated corporate bonds",
                       "Consider Public Provident Fund (PPF) for tax-free returns",
                       "Avoid concentration in any single investment beyond 20%">> ] ]

\* calculateDownsideMetrics(planningRegion, riskTolerance, marketContext);
\* market holds benchmarks.primary.volatility, in tenths, when it is present
calculateDownsideMetrics(planningRegion, rt, market) ==
    LET volatility     == OrDefault(market, "volatility", ByRegion(planningRegion, 142, 165))
        riskMultiplier == ByRisk(rt, 20, 14, 10)
    IN  [ maxDrawdown  |-> -RoundDiv(volatility * riskMultiplier, 10),
          worstYear    |-> ByRisk(rt, -350, -250, -150),
          volatility   |-> volatility,
          stressTest   |-> [ recession      |-> ByRisk(rt, -40, -30, -20),
                             marketCrash    |-> ByRisk(rt, -50, -35, -25),
                             inflationSpike |-> ByRisk(rt, -15, -10, -5) ],
          advisories   |-> advisories[planningRegion][rt],
          recoveryTime |-> ByRisk(rt, "18-36 months", "12-24 months", "6-18 months") ]

\* cagr, volatility and returns in tenths, sharpe in hundredths
benchmarks ==
    [ us |->
        [ primary     |-> [ name |-> "S&P 500", cagr |-> 105, volatility |-> 174,
                            sharpe |-> 58, returns |-> <<182, 103, 121, 105>>,
                            dataAsOf |-> "2024-11-15" ],
          secondary   |-> [ name |-> "Nasdaq Composite", cagr |-> 135, volatility |-> 228,
                            sharpe |-> 48, returns |-> <<241, 142, 153, 135>>,
                            dataAsOf |-> "2024-11-15" ],
          alternative |-> [ name |-> "Russell 2000", cagr |-> 78, volatility |-> 242,
                            sharpe |-> 14, returns |-> <<124, 62, 81, 78>>,
                            dataAsOf |-> "2024-11-15" ] ],
      india |->
        [ primary     |-> [ name |-> "Nifty 50", cagr |-> 112, volatility |-> 196,
                            sharpe |-> 38, returns |-> <<153, 118, 115, 112>>,
                            dataAsOf |-> "2024-11-15" ],
          secondary   |-> [ name |-> "BSE Sensex", cagr |-> 109, volatility |-> 192,
                            sharpe |-> 36, returns |-> <<148, 112, 111, 109>>,
                            dataAsOf |-> "2024-11-15" ],
          alternative |-> [ name |-> "Nifty Next 50", cagr |-> 128, volatility |-> 235,
                            sharpe |-> 26, returns |-> <<187, 135, 132, 128>>,
                            dataAsOf |-> "2024-11-15" ] ] ]

\* rates in hundredths of a percent
marketData ==
    [ us    |-> [ riskFreeRate |-> 463, inflationRate |-> 320 ],
      india |-> [ riskFreeRate |-> 687, inflationRate |-> 549 ] ]

\* generateDetailedBenchmarks(planningRegion) called on the given day:
\* lastUpdated is new Date().toISOString().split('T')[0]
generateDetailedBenchmarks(planningRegion, day) ==
    [ benchmarks    |-> benchmarks[planningRegion],
      riskFreeRate  |-> marketData[planningRegion].riskFreeRate,
      inflationRate |-> marketData[planningRegion].inflationRate,
      lastUpdated   |-> day,
      dataSources   |->
          [ us    |-> <<"S&P Dow Jones Indices", "Nasdaq Global Indexes", "FTSE Russell",
                        "US Treasury", "Bureau of Labor Statistics">>,
            india |-> <<"NSE India", "BSE India", "Reserve Bank of India",
                        "Ministry of Statistics and Programme Implementation">> ] ]

\* a property that is missing counts as false
Flag(obj, k) == k \in DOMAIN obj /\ obj[k]

\* a faulty variant of LiquidationRecommendation: the cap is 20
LiquidationRecommendationCap20(annualSellPercentage, concentrationRisk) ==
    IF concentrationRisk THEN Min(annualSellPercentage + 5, 20) ELSE annualSellPercentage

\* liquidationRecommendation
LiquidationRecommendation(annualSellPercentage, concentrationRisk) ==
    IF concentrationRisk THEN Min(annualSellPercentage + 5, 25) ELSE annualSellPercentage

\* generateDetailedEsopStrategy(planningRegion, riskTolerance, analyticsSummary,
\* userGoals); summary.esopOverview and summary.riskFlags hold the properties
\* present.  The texts without a substituted value are left out.
generateDetailedEsopStrategy(planningRegion, rt, summary, goals) ==
    LET esopValue            == OrDefault(summary.esopOverview, "totalValue", 100000)
        annualSellPercentage == ByRisk(rt, 20, 15, 10)
        concentrationRisk    == Flag(summary.riskFlags, "highConcentration")
        liquidationRecommendation ==
            LiquidationRecommendation(annualSellPercentage, concentrationRisk)
    IN  [ overview |-> [ region |-> ByRegion(planningRegion, "US", "Indian"),
                         riskTolerance |-> rt ],
          riskAssessment |->
              [ concentrationRisk |-> concentrationRisk,
                percentOfPortfolio |->
                    IF ~concentrationRisk THEN "none"
                    ELSE IF "percentOfPortfolio" \in DOMAIN summary.esopOverview
                            /\ summary.esopOverview["percentOfPortfolio"] # 0
                    THEN summary.esopOverview["percentOfPortfolio"]
                    ELSE "35+" ],
          liquidationPlan |-> [ percent |-> liquidationRecommendation,
                                concentrationRisk |-> concentrationRisk ],
          taxPlanning |-> ByRegion(planningRegion, "US", "INDIA"),
          futureVestingStrategy |-> IF concentrationRisk THEN "15" ELSE "20",
          exerciseFundingStrategy |->
              [ estimatedCost        |-> RoundDiv(esopValue, 5),
                monthlySavingsTarget |-> RoundDiv(esopValue, 60),
                annualSellPercentage |-> liquidationRecommendation,
                taxRate              |-> IF planningRegion = "india" THEN 10 ELSE 22,
                fundingSources       |-> <<"Monthly savings allocation",
                                           "Sell-to-cover strategy",
                                           "Short-term liquid investments">> ],
          actionSteps |->
              << [ step |-> "Establish ESOP exercise fund", percent |-> 0,
                   timeline |-> "Immediate" ],
                 [ step |-> "Implement quarterly sell strategy",
                   percent |-> liquidationRecommendation, timeline |-> "Next quarter" ],
                 [ step |-> "Tax planning consultation", percent |-> 0,
                   timeline |-> "Within 30 days" ],
                 [ step |-> "Annual portfolio rebalancing", percent |-> 0,
                   timeline |-> "Annually" ] >>,
          additionalRecommendations |->
              [ program |-> ByRegion(planningRegion, "10b5-1 plan", "structured selling program"),
                currencySymbol |-> ByRegion(planningRegion, "$", "Rs"),
                cashBuffer |-> RoundDiv(esopValue, 20) ] ]

allocations(planningRegion) ==
    [ low    |-> [ equity |-> ByRegion(planningRegion, 40, 45),
                   bonds |-> ByRegion(planningRegion, 50, 45), alternatives |-> 10 ],
      medium |-> [ equity |-> ByRegion(planningRegion, 60, 55),
                   bonds |-> ByRegion(planningRegion, 30, 35), alternatives |-> 10 ],
      high   |-> [ equity |-> ByRegion(planningRegion, 80, 75),
                   bonds |-> ByRegion(planningRegion, 10, 15), alternatives |-> 10 ] ]

\* getRiskAdjustedAllocation(planningRegion, riskTolerance), where the lookup
\* is an own property or undefined
getRiskAdjustedAllocation(planningRegion, rt) ==
    IF rt \in DOMAIN allocations(planningRegion)
    THEN allocations(planningRegion)[rt]
    ELSE allocations(planningRegion).medium

(***************************************************************************)
(* One function of the synthesizer called twice with the same arguments,   *)
(* the clock possibly moving on in between (SpecStrategy).  The arguments  *)
(* range over the documented regions and risk tolerances.                  *)
(***************************************************************************)
Functions == {"generateDetailedStrategies", "calculateDownsideMetrics",
              "generateDetailedBenchmarks", "generateDetailedEsopStrategy",
              "getRiskAdjustedAllocation"}

Regions == {"us", "india"}

RiskTolerances == {"low", "medium", "high"}

EmptyObj == [x \in {} |-> 0]

\* the objects that have the property k with a value of vals, or have it not
Opt(k, vals) == {EmptyObj} \cup {k :> v : v \in vals}

GoalProfiles ==
    {a @@ r @@ inc @@ ex @@ h :
         a \in Opt("currentAge", {0, 30, 40, 46}),
         r \in Opt("retirementAge", {50, 60}),
         inc \in Opt("monthlyIncome", {0, -1000, 60000}),
         ex \in Opt("monthlyExpenses", {0, 30000, 45000}),
         h \in Opt("investmentHorizon", {20})}

Summaries ==
    {[esopOverview |-> v @@ pp, riskFlags |-> c] :
         v \in Opt("totalValue", {0, 50000}),
         pp \in Opt("percentOfPortfolio", {40}),
         c \in Opt("highConcentration", BOOLEAN)}

NoSummary == [esopOverview |-> EmptyObj, riskFlags |-> EmptyObj]

Markets == Opt("volatility", {0, 174})

\* the arguments tried for a function: those it reads vary, the others are
\* left out
ArgsOf(f) ==
    LET all(regions, risks, goals, summaries, markets) ==
            {[planningRegion |-> pr, riskTolerance |-> rt, userGoals |-> g,
              analyticsSummary |-> su, marketContext |-> m] :
                 pr \in regions, rt \in risks, g \in goals, su \in summaries,
                 m \in markets}
    IN  CASE f = "generateDetailedStrategies" ->
                 all(Regions, RiskTolerances, GoalProfiles, {NoSummary}, {EmptyObj})
          [] f = "calculateDownsideMetrics" ->
                 all(Regions, RiskTolerances, {EmptyObj}, {NoSummary}, Markets)
          [] f = "generateDetailedBenchmarks" ->
                 all(Regions, {"medium"}, {EmptyObj}, {NoSummary}, {EmptyObj})
          [] f = "generateDetailedEsopStrategy" ->
                 all(Regions, RiskTolerances, {EmptyObj}, Summaries, {EmptyObj})
          [] f = "getRiskAdjustedAllocation" ->
                 all(Regions, RiskTolerances \cup {"extreme"}, {EmptyObj}, {NoSummary},
                     {EmptyObj})

\* what the function returns for the arguments when called on the given day
Apply(f, a, day) ==
    CASE f = "generateDetailedStrategies" ->
             generateDetailedStrategies(a.planningRegion, a.riskTolerance, a.userGoals)
      [] f = "calculateDownsideMetrics" ->
             calculateDownsideMetrics(a.planningRegion, a.riskTolerance, a.marketContext)
      [] f = "generateDetailedBenchmarks" ->
             generateDetailedBenchmarks(a.planningRegion, day)
      [] f = "generateDetailedEsopStrategy" ->
             generateDetailedEsopStrategy(a.planningRegion, a.riskTolerance,
                                          a.analyticsSummary, a.userGoals)
      [] f = "getRiskAdjustedAllocation" ->
             getRiskAdjustedAllocation(a.planningRegion, a.riskTolerance)

InitStrat ==
    /\ fn \in Functions
    /\ args \in ArgsOf(fn)
    /\ today = 0
    /\ first = <<>> /\ second = <<>>
    /\ stratPc = "idle"

\* the first call
FirstCall ==
    /\ stratPc = "idle"
    /\ first' = Apply(fn, args, today)
    /\ stratPc' = "once"
    /\ UNCHANGED <<fn, args, today, second>>

\* midnight passes between the calls
Tick ==
    /\ stratPc = "once" /\ today = 0
    /\ today' = today + 1
    /\ UNCHANGED <<fn, args, first, second, stratPc>>

\* the second call, with the arguments of the first
SecondCall ==
    /\ stratPc = "once"
    /\ second' = Apply(fn, args, today)
    /\ stratPc' = "twice"
    /\ UNCHANGED <<fn, args, today, first>>

RestOfStrat == UNCHANGED <<ingestVars, normVars, dateVars, simVars, batchVars>>

NextStrat ==
    \/ FirstCall /\ RestOfStrat
    \/ Tick /\ RestOfStrat
    \/ SecondCall /\ RestOfStrat

StratInit == RestIngest /\ RestNorm /\ RestDate /\ RestSim /\ InitStrat /\ RestBatch

SpecStrategy == StratInit /\ [][NextStrat]_vars

(***************************************************************************)
(* Claims about the strategy synthesizer.                                  *)
(***************************************************************************)
\* generateDetailedStrategies has returned
StrategiesReturned == fn = "generateDetailedStrategies" /\ stratPc # "idle"

\* the age and the retirement age of a goal profile, 35 and 60 when the
\* profile gives none
ProfileAge(g) == OrDefault(g, "currentAge", 35)

ProfileRetirementAge(g) == OrDefault(g, "retirementAge", 60)

\* the retirement-focus flag of a goal profile
RetirementFocus(g) ==
    ProfileAge(g) > 45 \/ ProfileRetirementAge(g) - ProfileAge(g) < 15

\* C13: generateDetailedStrategies returns exactly four strategies, in the
\* order core, sector, ESOP diversification, fourth; the fourth is the
\* retirement-income strategy iff the retirement-focus flag of the profile
\* holds, and otherwise one of opportunistic growth and financial safety; for
\* age 30 and retirement age 60 it is never retirement income.
C13_FourStrategies ==
    StrategiesReturned
    => /\ Len(first) = 4
       /\ first[1].title = "Core Investment Strategy"
       /\ first[2].title = "Sector Allocation Strategy"
       /\ first[3].title = "ESOP Diversification Strategy"
       /\ first[4].title \in {"Retirement Income Strategy",
                              "Opportunistic Growth Strategy",
                              "Financial Safety Strategy"}
       /\ first[4].title = "Retirement Income Strategy"
          <=> RetirementFocus(args.userGoals)
       /\ ( /\ "currentAge" \in DOMAIN args.userGoals
            /\ "retirementAge" \in DOMAIN args.userGoals
            /\ args.userGoals["currentAge"] = 30
            /\ args.userGoals["retirementAge"] = 60 )
          => first[4].title # "Retirement Income Strategy"

\* risk tolerance high, region us, age 30, retirement age 60: the fourth
\* strategy is opportunistic growth
C13_Witness ==
    /\ StrategiesReturned
    /\ args.riskTolerance = "high" /\ args.planningRegion = "us"
    /\ "currentAge" \in DOMAIN args.userGoals /\ args.userGoals["currentAge"] = 30
    /\ "retirementAge" \in DOMAIN args.userGoals /\ args.userGoals["retirementAge"] = 60
    /\ ~RetirementFocus(args.userGoals)
    /\ Len(first) = 4
    /\ first[4].title = "Opportunistic Growth Strategy"

\* C14: for a profile whose retirement-focus flag is false and which supplies
\* a monthly income > 0 and monthly expenses, the fourth strategy is
\* opportunistic growth iff (income - expenses) / income * 100 > 30, computed
\* from the supplied values, and financial safety otherwise.
C14_SavingsRateDecides ==
    ( /\ StrategiesReturned
      /\ ~RetirementFocus(args.userGoals)
      /\ "monthlyIncome" \in DOMAIN args.userGoals
      /\ "monthlyExpenses" \in DOMAIN args.userGoals
      /\ args.userGoals["monthlyIncome"] > 0 )
    => LET income   == args.userGoals["monthlyIncome"]
           expenses == args.userGoals["monthlyExpenses"]
       IN  first[4].title =
               (IF (income - expenses) * 100 > 30 * income
                THEN "Opportunistic Growth Strategy"
                ELSE "Financial Safety Strategy")

\* generateDetailedEsopStrategy has returned
EsopStrategyReturned == fn = "generateDetailedEsopStrategy" /\ stratPc # "idle"

\* the concentration-risk flag of the analytics summary is set
ConcentrationFlag(su) ==
    "highConcentration" \in DOMAIN su.riskFlags /\ su.riskFlags["highConcentration"]

\* the base percentage of a risk tolerance
BasePercentage(rt) == CASE rt = "low" -> 10 [] rt = "medium" -> 15 [] rt = "high" -> 20

\* C15: annualSellPercentage of the ESOP strategy is the base percentage of
\* the risk tolerance (low 10, medium 15, high 20) when the concentration-risk
\* flag is not set and min(base + 5, 25) when it is set; it never exceeds 25,
\* it is 15 for low with the flag set, and the liquidation plan and the action
\* steps name the same percentage.
C15_AnnualSellPercentage ==
    EsopStrategyReturned
    => LET pct  == first.exerciseFundingStrategy.annualSellPercentage
           base == BasePercentage(args.riskTolerance)
       IN  /\ ~ConcentrationFlag(args.analyticsSummary) => pct = base
           /\ ConcentrationFlag(args.analyticsSummary)
              => pct = (IF base + 5 < 25 THEN base + 5 ELSE 25)
           /\ pct <= 25
           /\ (args.riskTolerance = "low" /\ ConcentrationFlag(args.analyticsSummary))
              => pct = 15
           /\ first.liquidationPlan.percent = pct
           /\ \E k \in 1..Len(first.actionSteps) : first.actionSteps[k].percent = pct

\* risk tolerance low with the concentration-risk flag set: 15
C15_Witness ==
    /\ EsopStrategyReturned
    /\ args.riskTolerance = "low"
    /\ ConcentrationFlag(args.analyticsSummary)
    /\ first.exerciseFundingStrategy.annualSellPercentage = 15
    /\ first.liquidationPlan.percent = 15

\* C16: every function of the synthesizer is a pure function of its
\* arguments: the second of two calls with the same arguments returns what
\* the first returned, whatever time passed between them.
C16_PureFunctions == stratPc = "twice" => second = first

RECURSIVE TotalAllocation(_)
\* the sum of the allocation percentages of a list of strategies
TotalAllocation(strategies) ==
    IF strategies = <<>> THEN 0
    ELSE Head(strategies).allocation + TotalAllocation(Tail(strategies))

\* C21: for every region, every risk tolerance and every goal profile, in
\* each of the three branches of the fourth strategy, the allocation
\* percentages of the four strategies generateDetailedStrategies returns sum
\* to exactly 100.
C21_AllocationsSumTo100 ==
    StrategiesReturned => (Len(first) = 4 /\ TotalAllocation(first) = 100)

(***************************************************************************)
(* generateSuccessProbabilities(esopData, userGoals) (SpecBatch).  A grant *)
(* of esopData carries its vested quantity and its exercise price, the     *)
(* price in thousandths, so that initialInvestment is in thousandths too.  *)
(* The variables initialInvestment and goalAmount hold the constants of    *)
(* that name of this function.  Each runSimulation call is one step whose  *)
(* result is any of the probabilities tried.                               *)
(***************************************************************************)
RECURSIVE ReduceLast(_, _)
\* a faulty variant of Reduce: the sum is not carried on, so that the result
\* is the value of the last grant
ReduceLast(grants, sum) ==
    IF grants = <<>> THEN sum
    ELSE ReduceLast(Tail(grants), Head(grants).vested * Head(grants).exercisePrice)

RECURSIVE Reduce(_, _)
\* esopData.reduce((sum, grant) => sum + (grant.vested * grant.exercisePrice), sum)
Reduce(grants, sum) ==
    IF grants = <<>> THEN sum
    ELSE Reduce(Tail(grants), sum + (Head(grants).vested * Head(grants).exercisePrice))

horizons == <<5, 10, 15, 20>>

RiskKeys == <<"lowRisk", "mediumRisk", "highRisk">>

\* risk.replace('Risk', '')
WithoutRisk(key) ==
    CASE key = "lowRisk" -> "low" [] key = "mediumRisk" -> "medium"
      [] key = "highRisk" -> "high"

\* `year${horizon}`
YearKey(h) ==
    CASE h = 5 -> "year5" [] h = 10 -> "year10" [] h = 15 -> "year15" [] h = 20 -> "year20"

\* the results of runSimulation tried: no trial reached the goal, or all did
Outcomes == {ToProbability(0), ToProbability(scenarios)}

\* {vested: 40, exercisePrice: 1.5}, {vested: 0, exercisePrice: 7},
\* {vested: 5, exercisePrice: 0.25}
GrantA == [vested |-> 40, exercisePrice |-> 1500]

GrantB == [vested |-> 0, exercisePrice |-> 7000]

GrantC == [vested |-> 5, exercisePrice |-> 250]

HoldingsInputs == {<<>>, <<GrantA>>, <<GrantB, GrantA>>, <<GrantA, GrantC, GrantA>>}

RetirementAges == {0, 55, 60}

InitBatch ==
    /\ esopData \in HoldingsInputs
    /\ userGoals \in {"retirementAge" :> a : a \in RetirementAges}
    /\ risk = 1 /\ horizon = 1
    /\ batchResults = <<>> /\ simCalls = <<>>
    /\ batchPc = "call"

simLocals == <<riskTolerance, timeHorizon, i, year, currentValue, successCount,
               successProbability, simPc, tamed, draws, mediumValue, mediumCount>>

\* the constants and the empty results of the call
Derive ==
    /\ batchPc = "call"
    /\ initialInvestment' = Reduce(esopData, 0)
    /\ goalAmount' = userGoals["retirementAge"] * 50000
    /\ batchResults' = [k \in {RiskKeys[n] : n \in 1..Len(RiskKeys)} |-> EmptyObj]
    /\ batchPc' = "loop"
    /\ UNCHANGED <<esopData, userGoals, risk, horizon, simCalls, simLocals>>

\* one pass of the inner loop: the simulation runs and returns p, which is
\* stored under the keys of the risk profile and the horizon
Simulate(p) ==
    /\ batchPc = "loop" /\ risk <= Len(RiskKeys)
    /\ simCalls' = Append(simCalls,
          [riskTolerance |-> WithoutRisk(RiskKeys[risk]), timeHorizon |-> horizons[horizon],
           initialInvestment |-> initialInvestment, goalAmount |-> goalAmount,
           successProbability |-> p])
    /\ batchResults' = [batchResults EXCEPT ![RiskKeys[risk]] =
          [k \in DOMAIN @ \cup {YearKey(horizons[horizon])} |->
              IF k = YearKey(horizons[horizon]) THEN p ELSE @[k]]]
    /\ IF horizon < Len(horizons)
       THEN horizon' = horizon + 1 /\ risk' = risk
       ELSE horizon' = 1 /\ risk' = risk + 1
    /\ UNCHANGED <<esopData, userGoals, initialInvestment, goalAmount, batchPc, simLocals>>

\* return results
ReturnResults ==
    /\ batchPc = "loop" /\ risk > Len(RiskKeys)
    /\ batchPc' = "done"
    /\ UNCHANGED <<esopData, userGoals, risk, horizon, batchResults, simCalls, simVars>>

RestOfBatch == UNCHANGED <<ingestVars, normVars, dateVars, stratVars>>

NextBatch ==
    \/ Derive /\ RestOfBatch
    \/ \E p \in Outcomes : Simulate(p) /\ RestOfBatch
    \/ ReturnResults /\ RestOfBatch

BatchInit == RestIngest /\ RestNorm /\ RestDate /\ RestSim /\ RestStrat /\ InitBatch

SpecBatch == BatchInit /\ [][NextBatch]_vars

(***************************************************************************)
(* Claims about generateSuccessProbabilities.                              *)
(***************************************************************************)
RECURSIVE VestedValue(_)
\* the sum over the holdings of vested quantity times exercise price
VestedValue(grants) ==
    IF grants = <<>> THEN 0
    ELSE Head(grants).vested * Head(grants).exercisePrice + VestedValue(Tail(grants))

\* C17: the batch projection returns exactly one probability for each pair of
\* a risk profile of low, medium, high and a horizon of 5, 10, 15, 20 years,
\* the one its simulation returned; each of the twelve simulations is run with
\* the initial investment that is the sum over the holdings of vested
\* quantity times exercise price (0 for no holdings) and with the goal value
\* retirementAge * 50000.
C17_BatchProjection ==
    /\ \A k \in 1..Len(simCalls) :
          /\ simCalls[k].initialInvestment = VestedValue(esopData)
          /\ simCalls[k].goalAmount = userGoals["retirementAge"] * 50000
          /\ esopData = <<>> => simCalls[k].initialInvestment = 0
    /\ batchPc = "done"
       => /\ Len(simCalls) = 12
          /\ DOMAIN batchResults = {"lowRisk", "mediumRisk", "highRisk"}
          /\ \A r \in {"low", "medium", "high"}, h \in {5, 10, 15, 20} :
                \E k \in 1..Len(simCalls) :
                   /\ simCalls[k].riskTolerance = r
                   /\ simCalls[k].timeHorizon = h
                   /\ \A j \in 1..Len(simCalls) :
                         (simCalls[j].riskTolerance = r /\ simCalls[j].timeHorizon = h)
                         => j = k
                   /\ LET rk == CASE r = "low" -> "lowRisk" [] r = "medium" -> "mediumRisk"
                                  [] r = "high" -> "highRisk"
                          yk == CASE h = 5 -> "year5" [] h = 10 -> "year10"
                                  [] h = 15 -> "year15" [] h = 20 -> "year20"
                      IN  /\ DOMAIN batchResults[rk] = {"year5", "year10", "year15", "year20"}
                          /\ batchResults[rk][yk] = simCalls[k].successProbability

\* a batch over three holdings has returned, with results that differ
C17_Witness ==
    /\ batchPc = "done"
    /\ Len(esopData) = 3
    /\ initialInvestment = 40 * 1500 + 5 * 250 + 40 * 1500
    /\ goalAmount = 60 * 50000
    /\ batchResults["lowRisk"]["year5"] # batchResults["highRisk"]["year20"]

=============================================================================
